---- MODULE Spec2Model ----
(***************************************************************************)
(* A model of the routines of the rust_reference teaching crates that      *)
(* carry a contract: the extremum finders of generic_types, the `longest`  *)
(* selectors of lifetime together with their callers, the entry-API        *)
(* counting loops and the insert / or_insert / remove methods of hash_map, *)
(* and the first-word functions of slice.                                  *)
(*                                                                         *)
(* One behaviour runs one routine on one input.  `prog` names the routine, *)
(* `pc` its control position.  A reference into a slice is modelled by the *)
(* position it refers to (positions are 1-based: position p is list[p-1]); *)
(* a &str is a span [owner, off, len] of bytes of an owning String.        *)
(***************************************************************************)
EXTENDS Integers, Sequences, FiniteSets, TLC

VARIABLES
    prog,       \* the routine this behaviour runs
    pc,         \* control position inside the routine
    stdout,     \* the console: what println! (stdout) and dbg! (stderr) wrote
    list,       \* largest: the input slice
    T,          \* largest: the element type ("i32" or "char")
    largest,    \* largest: the local `largest`, a reference (position), 0 = unset
    iter,       \* largest: position the `for i in list` iterator yields next
    ret,        \* largest: the returned reference (position), 0 = nothing returned
    heap,       \* longest: contents (UTF-8 bytes) of the Strings s1, s2
    alive,      \* longest: the Strings that are initialised and not yet dropped
    x,          \* longest: first argument span
    y,          \* longest: second argument span
    result,     \* longest: returned span / usize
    ip,         \* callers: index of the next statement
    depth,      \* callers: current block nesting depth
    decl,       \* callers: block depth at which each local was declared
    r1,         \* callers: local r1
    r2,         \* callers: local r2
    r,          \* callers: local r
    reads,      \* callers: log of reads of r, each with whether its referents lived
    text,       \* counting: the input text (sequence of chars)
    words,      \* counting: what the iterator still has to yield
    map,        \* counting: the HashMap, a function from keys to counts
    runs,       \* counting: how many calls of the routine have finished before
    earlier,    \* counting: the map the earlier call built
    hm,         \* map methods: the HashMap
    prev,       \* map methods: the HashMap before the latest method call
    log,        \* map methods: the calls made, each with what it returned
    string,     \* first word: the bytes of the String `s`
    word,       \* first word: what the function returned
    calls,      \* concurrent callers: each caller's call and its result
    frames,     \* concurrent callers: the stack frames, the locals of the calls
    earlier_text, \* counting: the text the earlier call was given
    scopes,     \* drop: the open scopes, innermost last, each the names it declared
    dropped,    \* drop: how many times Drop::drop ran for each value
    todo,       \* drop: the statements still to run
    vinit,      \* pop: the vector as it was built
    vector,     \* pop: the vector `v`
    popped,     \* pop: the values the loop body received, in order
    opt         \* pop: what the latest v.pop() returned

largestVars == <<list, T, largest, iter, ret>>
longestVars == <<heap, alive, x, y, result>>
callerVars  == <<ip, depth, decl, r1, r2, r, reads>>
countVars   == <<text, words, map, runs, earlier, earlier_text>>
mapVars     == <<hm, prev, log>>
sliceVars   == <<string, word>>
concVars    == <<calls, frames>>
dropVars    == <<scopes, dropped, todo>>
popVars     == <<vinit, vector, popped, opt>>
vars == <<prog, pc, stdout, largestVars, longestVars, callerVars, countVars,
          mapVars, sliceVars, concVars, dropVars, popVars>>

\* what the steps of one routine leave alone
notLargest == <<longestVars, callerVars, countVars, mapVars, sliceVars,
               concVars, dropVars, popVars>>
notLongest == <<largestVars, callerVars, countVars, mapVars, sliceVars,
               concVars, dropVars, popVars>>
\* (the callers use the selectors' variables)
notCallers == <<largestVars, countVars, mapVars, sliceVars, concVars,
               dropVars, popVars>>
notCount   == <<largestVars, longestVars, callerVars, mapVars, sliceVars,
               concVars, dropVars, popVars>>
notMap     == <<largestVars, longestVars, callerVars, countVars, sliceVars,
               concVars, dropVars, popVars>>
notSlice   == <<largestVars, longestVars, callerVars, countVars, mapVars,
               concVars, dropVars, popVars>>
notConc    == <<largestVars, longestVars, callerVars, countVars, mapVars,
               sliceVars, dropVars, popVars>>
notDrop    == <<largestVars, longestVars, callerVars, countVars, mapVars,
               sliceVars, concVars, popVars>>
notPop     == <<largestVars, longestVars, callerVars, countVars, mapVars,
               sliceVars, concVars, dropVars>>

-----------------------------------------------------------------------------
(* Bounds of the model *)

\* longest length of an input slice of the extremum finders
MaxLen == 3

\* longest String, in chars, handed to the selectors
MaxChars == 2

\* longest text, in chars, handed to the counting loops
MaxTextLen == 5

\* longest unread rest, in chars, of a text whose counting loop is under way
MaxRestLen == 2

-----------------------------------------------------------------------------
(* Values shared by the routines *)

\* a &str that refers to nothing yet (a declared, unassigned local)
NoSpan == [owner |-> "none", off |-> 0, len |-> 0, lifetime |-> {}]

Owners == {"s1", "s2"}

EmptyHeap == [o \in Owners |-> <<>>]

IdleLargest ==
    /\ list = <<>> /\ T = "i32" /\ largest = 0 /\ iter = 0 /\ ret = 0

IdleLongest ==
    /\ heap = EmptyHeap /\ alive = {} /\ x = NoSpan /\ y = NoSpan
    /\ result = [kind |-> "none"]

\* the locals of the callers of longest
Locals == {"r", "s1", "s2", "r1", "r2"}

IdleCallers ==
    /\ ip = 0 /\ depth = 0 /\ decl = [v \in Locals |-> 0]
    /\ r1 = NoSpan /\ r2 = NoSpan /\ r = NoSpan /\ reads = <<>>

IdleCount ==
    /\ text = <<>> /\ words = <<>> /\ map = [k \in {} |-> 0]
    /\ runs = 0 /\ earlier = [k \in {} |-> 0] /\ earlier_text = <<>>

IdleMap == hm = [k \in {} |-> 0] /\ prev = [k \in {} |-> 0] /\ log = <<>>

IdleSlice == string = <<>> /\ word = [kind |-> "none"]

IdleConc == calls = <<>> /\ frames = <<>>

IdleDrop == scopes = <<>> /\ dropped = <<>> /\ todo = <<>>

IdlePop == vinit = <<>> /\ vector = <<>> /\ popped = <<>> /\ opt = [some |-> FALSE]

-----------------------------------------------------------------------------
(* generic_types: largest_i32, largest_char, largest<T> *)

LargestFns == {"largest_i32", "largest_char", "largest"}

\* i32 sample values: both ends of the range, and values around zero
I32Vals == {-2147483647 - 1, -1, 0, 1, 2147483647}

\* char sample values (code points): 'a', 'm', 'q', 'y', U+4E2D
CharVals == {97, 109, 113, 121, 20013}

\* values of a type that is only partially ordered: sets of two flags held
\* as bit masks 0..3, one below another when it is a proper subset of it
\* (1 and 2 are incomparable)
BitsetVals == 0..3

ElemVals(t) ==
    CASE t = "i32"  -> I32Vals
      [] t = "char" -> CharVals
      [] OTHER      -> BitsetVals

\* the element types each function accepts
ElemTypes(f) ==
    CASE f = "largest_i32"  -> {"i32"}
      [] f = "largest_char" -> {"char"}
      [] OTHER              -> {"i32", "char", "bitset"}

\* the element types whose order is total
TotalTypes == {"i32", "char"}

SeqsUpTo(S, n) == UNION {[1..k -> S] : k \in 0..n}

\* the vectors of the two unit tests
TestListI32 == <<34, 50, 25, 100, 65>>
TestListChar == <<121, 109, 97, 113>>

TestLists(t) ==
    CASE t = "i32"  -> {TestListI32}
      [] t = "char" -> {TestListChar}
      [] OTHER      -> {}

\* a `<=` in place of `<`: a later equal element replaces the candidate
lt_or_equal(t, a, b) == a <= b

\* the comparison inverted: finds the minimum
lt_inverted(t, a, b) == b < a

\* `largest < i` on &T: PartialOrd::lt of the referents; i32 by value, char by
\* code point; a flag set is less than a proper superset of it
partial_lt(t, a, b) ==
    IF t = "bitset"
    THEN a # b /\ a % 2 <= b % 2 /\ a \div 2 <= b \div 2
    ELSE a < b

\* `&list[0]`: the position of the first element
first_index(l) == 1

\* no bounds check on `list[0]`
in_bounds_unchecked(l, p) == TRUE

\* the bounds check of the index expression `list[p-1]`
in_bounds(l, p) == p >= 1 /\ p <= Len(l)

InitLargest ==
    /\ prog \in LargestFns
    /\ pc = "call"
    /\ stdout = <<>>
    /\ T \in ElemTypes(prog)
    /\ list \in SeqsUpTo(ElemVals(T), MaxLen) \cup TestLists(T)
    /\ largest = 0 /\ iter = 0 /\ ret = 0
    /\ IdleLongest /\ IdleCallers /\ IdleCount
    /\ IdleMap /\ IdleSlice /\ IdleConc /\ IdleDrop /\ IdlePop

\* let mut largest = &list[0];  -- panics when list is empty
largest_enter ==
    /\ prog \in LargestFns
    /\ pc = "call"
    /\ IF in_bounds(list, first_index(list))
       THEN /\ largest' = first_index(list)
            /\ iter' = 1
            /\ pc' = "loop"
       ELSE /\ pc' = "panicked"
            /\ UNCHANGED <<largest, iter>>
    /\ UNCHANGED <<prog, stdout, list, T, ret, notLargest>>

\* an iteration that moves the greater element to the candidate's place, as
\* a finder holding &mut [T] could
largest_iter_moving ==
    /\ prog \in LargestFns
    /\ pc = "loop"
    /\ iter <= Len(list)
    /\ list' = IF partial_lt(T, list[largest], list[iter])
               THEN [list EXCEPT ![largest] = list[iter], ![iter] = list[largest]]
               ELSE list
    /\ iter' = iter + 1
    /\ UNCHANGED <<prog, pc, stdout, T, largest, ret, notLargest>>

\* one iteration of `for i in list { if largest < i { largest = i } }`
largest_iter ==
    /\ prog \in LargestFns
    /\ pc = "loop"
    /\ iter <= Len(list)
    /\ largest' = IF partial_lt(T, list[largest], list[iter]) THEN iter ELSE largest
    /\ iter' = iter + 1
    /\ UNCHANGED <<prog, pc, stdout, list, T, ret, notLargest>>

\* the loop variable returned in place of the candidate
return_loop_position == iter

\* the tail expression `largest`
return_value == largest

\* the iterator is exhausted: the function returns `largest`
largest_return ==
    /\ prog \in LargestFns
    /\ pc = "loop"
    /\ iter > Len(list)
    /\ ret' = return_value
    /\ pc' = "returned"
    /\ UNCHANGED <<prog, stdout, list, T, largest, iter, notLargest>>

(* Reference definitions for the extremum finders *)

\* insertion of e into the ascending sequence s
RECURSIVE InsertSorted(_, _)
InsertSorted(s, e) ==
    IF s = <<>> THEN <<e>>
    ELSE IF e <= Head(s) THEN <<e>> \o s
    ELSE <<Head(s)>> \o InsertSorted(Tail(s), e)

\* insertion sort, ascending
RECURSIVE ReferenceSort(_)
ReferenceSort(s) == IF s = <<>> THEN <<>> ELSE InsertSorted(ReferenceSort(Tail(s)), Head(s))

\* the maximum of a non-empty sequence: the last element of its sorted copy
SortMax(s) == ReferenceSort(s)[Len(s)]

\* C1: on a non-empty i32 slice, largest_i32 and largest::<i32> return a
\* reference to a value equal to the maximum found by a reference sort.
C1_LargestI32IsSortMax ==
    (prog \in {"largest_i32", "largest"} /\ T = "i32" /\ pc = "returned")
        => /\ ret \in DOMAIN list
           /\ list[ret] = SortMax(list)

\* the unit test's vector, answered with 100 by both functions' code
C1_Witness ==
    /\ prog = "largest_i32" /\ pc = "returned"
    /\ list = TestListI32 /\ list[ret] = 100

\* C2: on a non-empty char slice, largest_char returns the maximum of the
\* slice under code point order.
C2_LargestCharIsMax ==
    (prog = "largest_char" /\ pc = "returned")
        => /\ ret \in DOMAIN list
           /\ \A j \in DOMAIN list : list[j] <= list[ret]
           /\ list[ret] = SortMax(list)

\* the unit test's vector ['y','m','a','q'], answered with 'y'
C2_Witness ==
    /\ prog = "largest_char" /\ pc = "returned"
    /\ list = TestListChar /\ list[ret] = 121

\* C3: whenever an extremum finder returns, the returned reference is a
\* position of the input slice, so its value is an element of the input.
C3_ReturnsElementOfInput ==
    (prog \in LargestFns /\ pc = "returned")
        => /\ ret \in 1..Len(list)
           /\ \E j \in DOMAIN list : list[j] = list[ret]

\* a return of the last position of a full-length slice
C3_Witness ==
    /\ prog = "largest" /\ pc = "returned"
    /\ Len(list) = MaxLen /\ ret = Len(list)

\* position p is the earliest occurrence of the maximum of list[1..n]
EarliestMaxOfPrefix(p, n) ==
    /\ p \in 1..n
    /\ \A j \in 1..n : list[j] <= list[p]
    /\ \A j \in 1..(p - 1) : list[j] < list[p]

\* C4: the scan goes left to right and replaces the candidate only on a
\* strictly greater element: during the loop the candidate is the earliest
\* occurrence of the maximum of the scanned prefix, and the returned
\* reference is the earliest occurrence of the maximum of the whole slice.
C4_TiesKeepEarliest ==
    /\ (prog \in LargestFns /\ T \in TotalTypes /\ pc = "loop" /\ iter > 1)
            => EarliestMaxOfPrefix(largest, iter - 1)
    /\ (prog \in LargestFns /\ T \in TotalTypes /\ pc = "returned")
            => EarliestMaxOfPrefix(ret, Len(list))

\* the maximum occurs at a later position too, and the earlier one is returned
C4_Witness ==
    /\ prog \in LargestFns /\ T \in TotalTypes /\ pc = "returned"
    /\ \E j \in DOMAIN list : j > ret /\ list[j] = list[ret]

\* the flags of a bit mask
Flags(e) == {b \in 0..1 : (e \div (2 ^ b)) % 2 = 1}

\* e is strictly greater than d: its flags are a proper superset
StrictlyGreater(e, d) == Flags(d) \subseteq Flags(e) /\ Flags(d) # Flags(e)

\* C22: on a non-empty slice of a type that is only partially ordered, the
\* element the generic largest returns is maximal: no element of the slice
\* is strictly greater than it
C22_PartialOrderMaximal ==
    (prog = "largest" /\ T = "bitset" /\ pc = "returned")
        => /\ ret \in DOMAIN list
           /\ \A j \in DOMAIN list : ~StrictlyGreater(list[j], list[ret])

\* {flag 0} was the candidate, {flag 1} is incomparable with it and was
\* passed over, and the set of both flags replaced the candidate
C22_Witness ==
    /\ prog = "largest" /\ T = "bitset" /\ pc = "returned"
    /\ list = <<1, 2, 3>>
    /\ ret = 3

\* C5: on an empty slice the extremum finder panics at `list[0]`, before the
\* scan starts, and never returns: no candidate is set, no element is
\* visited, nothing is returned; and it panics on no other input.
C5_EmptyInputPanics ==
    /\ (prog \in LargestFns /\ list = <<>>)
            => /\ pc \in {"call", "panicked"}
               /\ largest = 0 /\ iter = 0 /\ ret = 0
    /\ (prog \in LargestFns /\ pc = "panicked") => list = <<>>

\* the generic finder has panicked on the empty slice
C5_Witness ==
    /\ prog = "largest" /\ pc = "panicked" /\ list = <<>>

-----------------------------------------------------------------------------
(* Strings and string slices *)

\* the UTF-8 encoding of one char (code point c): 1 to 4 bytes
Utf8Encode(c) ==
    IF c < 128 THEN <<c>>
    ELSE IF c < 2048 THEN <<192 + (c \div 64), 128 + (c % 64)>>
    ELSE IF c < 65536
    THEN <<224 + (c \div 4096), 128 + ((c \div 64) % 64), 128 + (c % 64)>>
    ELSE <<240 + (c \div 262144), 128 + ((c \div 4096) % 64),
           128 + ((c \div 64) % 64), 128 + (c % 64)>>

\* String::from(literal): the bytes of the chars, in order
RECURSIVE string_from(_)
string_from(chars) ==
    IF chars = <<>> THEN <<>> ELSE Utf8Encode(Head(chars)) \o string_from(Tail(chars))

\* byte offset i of `bytes` does not fall inside a char
is_char_boundary(bytes, i) ==
    \/ i = 0
    \/ i = Len(bytes)
    \/ i \in 1..(Len(bytes) - 1) /\ bytes[i + 1] \notin 128..191

\* s.as_str(), and &s coerced to &str: the whole of String o, borrowed from o
as_str(o, bytes) == [owner |-> o, off |-> 0, len |-> Len(bytes), lifetime |-> {o}]

\* every &str that can be borrowed from String o: &o[i..i+n] on char boundaries
Slices(o, bytes) ==
    {[owner |-> o, off |-> i, len |-> n, lifetime |-> {o}] :
        <<i, n>> \in {q \in (0..Len(bytes)) \X (0..Len(bytes)) :
                        /\ q[1] + q[2] <= Len(bytes)
                        /\ is_char_boundary(bytes, q[1])
                        /\ is_char_boundary(bytes, q[1] + q[2])}}

\* the bytes a span refers to
Content(sp) == SubSeq(heap[sp.owner], sp.off + 1, sp.off + sp.len)

\* two spans with the same start and the same length
SameSpan(a, b) == a.owner = b.owner /\ a.off = b.off /\ a.len = b.len

\* the length of a span in chars: x.chars().count()
str_chars_count(sp) ==
    Cardinality({j \in 1..Len(Content(sp)) : Content(sp)[j] \notin 128..191})

\* str::len: the length field of the fat pointer, in bytes
str_len(sp) == sp.len

\* chars the test Strings are made of: 'z' and U+4E2D (1 and 3 bytes)
StrChars == {122, 20013}

\* the literals of the source: "rust", "c++", and of the tie test: "ab", "cd"
Rust == <<114, 117, 115, 116>>
Cpp == <<99, 43, 43>>
Ab == <<97, 98>>
Cd == <<99, 100>>

\* the pairs of Strings the selectors are run on
StrInputs ==
    (SeqsUpTo(StrChars, MaxChars) \X SeqsUpTo(StrChars, MaxChars))
        \cup {<<Rust, Cpp>>, <<Ab, Cd>>}

-----------------------------------------------------------------------------
(* lifetime: the selectors *)

LongestFns == {"no_need_lifetime_annotation", "do_need_lifetime_annotation",
               "longest", "longest_with_an_announcement"}

\* `>=` in place of `>`: a tie goes to the first argument
longer_or_equal(a, b) == str_len(a) >= str_len(b)

\* `<` in place of `>`: the shorter argument wins
shorter_than(a, b) == str_len(a) < str_len(b)

\* `x.len() > y.len()`
longer_than(a, b) == str_len(a) > str_len(b)

\* the signature of thinking_in_terms_of_lifetime::longest: 'a on x alone
signature_first_only(a, b) == a.lifetime

\* <'a>(x: &'a str, y: &'a str) -> &'a str: the result is borrowed from the
\* referents of both arguments
longest_signature(a, b) == a.lifetime \cup b.lifetime

\* a selector that cuts the longer span to the length of the shorter one
longest_truncated(a, b) ==
    IF longer_than(a, b)
    THEN [a EXCEPT !.len = str_len(b), !.lifetime = longest_signature(a, b)]
    ELSE [b EXCEPT !.lifetime = longest_signature(a, b)]

\* fn longest<'a>(x: &'a str, y: &'a str) -> &'a str
longest(a, b) ==
    [(IF longer_than(a, b) THEN a ELSE b) EXCEPT !.lifetime = longest_signature(a, b)]

\* a selector that returns its first argument on a tie
first_on_tie(a, b) ==
    [(IF str_len(a) >= str_len(b) THEN a ELSE b)
        EXCEPT !.lifetime = a.lifetime \cup b.lifetime]

\* fn do_need_lifetime_annotation<'a>(x: &'a str, y: &'a str) -> &'a str
do_need_lifetime_annotation(a, b) ==
    [(IF str_len(a) > str_len(b) THEN a ELSE b)
        EXCEPT !.lifetime = a.lifetime \cup b.lifetime]

\* fn no_need_lifetime_annotation(x: &str, y: &str) -> usize
no_need_lifetime_annotation(a, b) ==
    IF str_len(a) > str_len(b) THEN str_len(a) ELSE str_len(b)

\* the value longest_with_an_announcement returns
longest_with_an_announcement(a, b) ==
    [(IF str_len(a) > str_len(b) THEN a ELSE b)
        EXCEPT !.lifetime = a.lifetime \cup b.lifetime]

\* the announcement written more than once
println_ann_repeated(ann) == <<[fd |-> "stdout", val |-> ann],
                               [fd |-> "stdout", val |-> ann]>>

\* println!("{}", ann): one line on the standard output
println_ann(ann) == <<[fd |-> "stdout", val |-> ann]>>

\* the values of `ann` the model passes
Announcements == {"Today is someone's birthday!"}

InitLongest ==
    /\ prog \in LongestFns
    /\ pc = "call"
    /\ stdout = <<>>
    /\ \E in \in StrInputs :
          heap = [o \in Owners |-> string_from(IF o = "s1" THEN in[1] ELSE in[2])]
    /\ alive = Owners
    /\ x \in Slices("s1", heap["s1"])
    /\ y \in Slices("s2", heap["s2"])
    /\ result = [kind |-> "none"]
    /\ IdleLargest /\ IdleCallers /\ IdleCount
    /\ IdleMap /\ IdleSlice /\ IdleConc /\ IdleDrop /\ IdlePop

no_need_lifetime_annotation_call ==
    /\ prog = "no_need_lifetime_annotation"
    /\ pc = "call"
    /\ result' = [kind |-> "usize", n |-> no_need_lifetime_annotation(x, y)]
    /\ pc' = "returned"
    /\ UNCHANGED <<prog, stdout, heap, alive, x, y, notLongest>>

do_need_lifetime_annotation_call ==
    /\ prog = "do_need_lifetime_annotation"
    /\ pc = "call"
    /\ result' = [kind |-> "str", span |-> do_need_lifetime_annotation(x, y)]
    /\ pc' = "returned"
    /\ UNCHANGED <<prog, stdout, heap, alive, x, y, notLongest>>

longest_call ==
    /\ prog = "longest"
    /\ pc = "call"
    /\ result' = [kind |-> "str", span |-> longest(x, y)]
    /\ pc' = "returned"
    /\ UNCHANGED <<prog, stdout, heap, alive, x, y, notLongest>>

\* println!("{}", ann), then the selection
longest_with_an_announcement_call ==
    /\ prog = "longest_with_an_announcement"
    /\ pc = "call"
    /\ \E ann \in Announcements :
          stdout' = stdout \o println_ann(ann)
    /\ result' = [kind |-> "str", span |-> longest_with_an_announcement(x, y)]
    /\ pc' = "returned"
    /\ UNCHANGED <<prog, heap, alive, x, y, notLongest>>

\* C6: when the byte lengths of the two spans differ, longest returns the
\* span with the strictly greater length.
C6_LongerSpanWins ==
    (prog = "longest" /\ pc = "returned")
        => /\ Len(Content(x)) > Len(Content(y)) => SameSpan(result.span, x)
           /\ Len(Content(y)) > Len(Content(x)) => SameSpan(result.span, y)

\* longest("rust", "c++") has returned "rust"
C6_Witness ==
    /\ prog = "longest" /\ pc = "returned"
    /\ Content(x) = Rust /\ Content(y) = Cpp
    /\ Content(result.span) = Rust

\* C7: when the two spans have the same byte length, longest returns its
\* second argument; with the arguments swapped it returns the other span, so
\* the two calls differ in content whenever the spans do.
C7_TieReturnsSecond ==
    (prog = "longest" /\ pc = "returned" /\ Len(Content(x)) = Len(Content(y)))
        => /\ SameSpan(result.span, y)
           /\ SameSpan(longest(y, x), x)
           /\ Content(x) # Content(y) => Content(longest(y, x)) # Content(result.span)

\* longest("ab", "cd") has returned "cd"
C7_Witness ==
    /\ prog = "longest" /\ pc = "returned"
    /\ Content(x) = Ab /\ Content(y) = Cd
    /\ Content(result.span) = Cd

\* C8: the span a selector returns is exactly x or exactly y: the same
\* owner, start and length as one of the two arguments.
C8_ReturnsAnInput ==
    (prog \in LongestFns /\ pc = "returned" /\ result.kind = "str")
        => SameSpan(result.span, x) \/ SameSpan(result.span, y)

\* a proper sub-slice of s1 was passed and came back with its own start
C8_Witness ==
    /\ prog = "longest" /\ pc = "returned"
    /\ x.off > 0 /\ x.len > y.len /\ y.len > 0
    /\ SameSpan(result.span, x)

\* the number of chars of a span: the bytes that start a char
CharsOf(sp) ==
    Cardinality({j \in 1..Len(Content(sp)) : Content(sp)[j] \notin 128..191})

\* the number of bytes of a span
BytesOf(sp) == Len(Content(sp))

\* C26: longest compares lengths in bytes, not in chars: when the span with
\* more bytes has no more chars than the other, it is still the one returned
C26_BytesNotChars ==
    (prog = "longest" /\ pc = "returned")
        => /\ (BytesOf(x) > BytesOf(y) /\ CharsOf(x) <= CharsOf(y))
                 => SameSpan(result.span, x)
           /\ (BytesOf(y) > BytesOf(x) /\ CharsOf(y) <= CharsOf(x))
                 => SameSpan(result.span, y)

\* x is one three-byte char, y is two one-byte chars: x is returned
C26_Witness ==
    /\ prog = "longest" /\ pc = "returned"
    /\ Content(x) = <<228, 184, 173>> /\ Content(y) = <<122, 122>>
    /\ CharsOf(x) = 1 /\ CharsOf(y) = 2
    /\ SameSpan(result.span, x)

\* the greater of two lengths
MaxOf(m, n) == IF m >= n THEN m ELSE n

\* C29: the variants of the selector agree on every pair of spans:
\* do_need_lifetime_annotation and longest_with_an_announcement return the
\* span longest returns, no_need_lifetime_annotation the length of that span,
\* the greater of the two lengths
C29_VariantsAgree ==
    /\ (prog \in {"do_need_lifetime_annotation", "longest_with_an_announcement"}
        /\ pc = "returned")
          => /\ result.kind = "str"
             /\ result.span = longest(x, y)
    /\ (prog = "no_need_lifetime_annotation" /\ pc = "returned")
          => /\ result.kind = "usize"
             /\ result.n = longest(x, y).len
             /\ result.n = MaxOf(BytesOf(x), BytesOf(y))

\* do_need_lifetime_annotation has returned its second argument on a tie of
\* two different spans, as longest does
C29_Witness ==
    /\ prog = "do_need_lifetime_annotation" /\ pc = "returned"
    /\ x.len = y.len /\ x.len > 0
    /\ SameSpan(result.span, y)
    /\ SameSpan(longest(x, y), y)

-----------------------------------------------------------------------------
(* lifetime: understanding_of_valid_reference, the callers of longest *)

Callers == {"right_nth1", "right_nth2", "right_nth3", "error_nth1"}

\* statements of the callers
Let(v)             == [op |-> "let", v |-> v, a |-> "", b |-> "", lit |-> <<>>]
LetString(v, l)    == [op |-> "let_string", v |-> v, a |-> "", b |-> "", lit |-> l]
AssignString(v, l) == [op |-> "assign_string", v |-> v, a |-> "", b |-> "", lit |-> l]
LetAsStr(v, o)     == [op |-> "let_as_str", v |-> v, a |-> o, b |-> "", lit |-> <<>>]
LongestOfStrings(o1, o2) ==
    [op |-> "longest_of_strings", v |-> "r", a |-> o1, b |-> o2, lit |-> <<>>]
LongestOfRefs(p, q) ==
    [op |-> "longest_of_refs", v |-> "r", a |-> p, b |-> q, lit |-> <<>>]
Open          == [op |-> "open", v |-> "", a |-> "", b |-> "", lit |-> <<>>]
Close         == [op |-> "close", v |-> "", a |-> "", b |-> "", lit |-> <<>>]
Println       == [op |-> "println", v |-> "r", a |-> "", b |-> "", lit |-> <<>>]
CommentedPrintln ==
    [op |-> "commented_println", v |-> "r", a |-> "", b |-> "", lit |-> <<>>]

right_nth1 ==
    << Let("r"), Let("s2"), Let("s1"),
       AssignString("s1", Cpp),
       Open,
           AssignString("s2", Rust),
           LongestOfStrings("s1", "s2"),
       Close,
       Println,
       Close >>

right_nth2 ==
    << Let("r"), LetString("s1", Rust), LetString("s2", Cpp),
       Open,
           LetAsStr("r1", "s1"),
           LetAsStr("r2", "s2"),
           LongestOfRefs("r1", "r2"),
       Close,
       Println,
       Close >>

right_nth3 ==
    << Let("r"), LetString("s1", Rust),
       Open,
           LetString("s2", Cpp),
           LetAsStr("r1", "s1"),
           LetAsStr("r2", "s2"),
           LongestOfRefs("r1", "r2"),
           Println,
       Close,
       Close >>

error_nth1 ==
    << Let("r"), LetString("s1", Rust),
       Open,
           LetString("s2", Cpp),
           LetAsStr("r1", "s1"),
           LetAsStr("r2", "s2"),
           LongestOfRefs("r1", "r2"),
       Close,
       CommentedPrintln,
       Close >>

\* the body of the caller that runs
Code ==
    CASE prog = "right_nth1" -> right_nth1
      [] prog = "right_nth2" -> right_nth2
      [] prog = "right_nth3" -> right_nth3
      [] prog = "error_nth1" -> error_nth1
      [] OTHER -> <<>>

\* the statement about to run
Stmt == Code[ip]

AtStmt(op) ==
    /\ prog \in Callers
    /\ pc = "run"
    /\ ip \in DOMAIN Code
    /\ Stmt.op = op

\* the local reference named v
Ref(v) == CASE v = "r1" -> r1 [] v = "r2" -> r2 [] OTHER -> r

\* a reference may be used while everything it is borrowed from is alive
ReadPermitted(ref) == ref.owner # "none" /\ ref.lifetime \subseteq alive

InitCallers ==
    /\ prog \in Callers
    /\ pc = "run"
    /\ stdout = <<>>
    /\ ip = 1 /\ depth = 1 /\ decl = [v \in Locals |-> 0]
    /\ r1 = NoSpan /\ r2 = NoSpan /\ r = NoSpan /\ reads = <<>>
    /\ IdleLargest /\ IdleLongest /\ IdleCount
    /\ IdleMap /\ IdleSlice /\ IdleConc /\ IdleDrop /\ IdlePop

\* let v;  -- declared in the current block, not initialised
stmt_let ==
    /\ AtStmt("let")
    /\ decl' = [decl EXCEPT ![Stmt.v] = depth]
    /\ ip' = ip + 1
    /\ UNCHANGED <<prog, pc, stdout, longestVars, depth, r1, r2, r, reads, notCallers>>

\* let v: String = String::from(lit);
stmt_let_string ==
    /\ AtStmt("let_string")
    /\ decl' = [decl EXCEPT ![Stmt.v] = depth]
    /\ heap' = [heap EXCEPT ![Stmt.v] = string_from(Stmt.lit)]
    /\ alive' = alive \cup {Stmt.v}
    /\ ip' = ip + 1
    /\ UNCHANGED <<prog, pc, stdout, x, y, result, depth, r1, r2, r, reads, notCallers>>

\* v = String::from(lit);  -- v was declared earlier, in its own block
stmt_assign_string ==
    /\ AtStmt("assign_string")
    /\ heap' = [heap EXCEPT ![Stmt.v] = string_from(Stmt.lit)]
    /\ alive' = alive \cup {Stmt.v}
    /\ ip' = ip + 1
    /\ UNCHANGED <<prog, pc, stdout, x, y, result, depth, decl, r1, r2, r, reads, notCallers>>

\* `{`
stmt_open ==
    /\ AtStmt("open")
    /\ depth' = depth + 1
    /\ ip' = ip + 1
    /\ UNCHANGED <<prog, pc, stdout, longestVars, decl, r1, r2, r, reads, notCallers>>

\* the locals that go out of scope when the block of depth d ends
out_of_scope(d) == {v \in Locals : decl[v] = d}

\* `}`: the locals of the block are dropped, their Strings freed
stmt_close ==
    /\ AtStmt("close")
    /\ LET gone == out_of_scope(depth) IN
          /\ alive' = alive \ gone
          /\ heap' = [o \in Owners |-> IF o \in gone THEN <<>> ELSE heap[o]]
          /\ decl' = [v \in Locals |-> IF v \in gone THEN 0 ELSE decl[v]]
          /\ r1' = IF "r1" \in gone THEN NoSpan ELSE r1
          /\ r2' = IF "r2" \in gone THEN NoSpan ELSE r2
          /\ r' = IF "r" \in gone THEN NoSpan ELSE r
    /\ depth' = depth - 1
    /\ ip' = ip + 1
    /\ pc' = IF depth = 1 THEN "returned" ELSE pc
    /\ UNCHANGED <<prog, stdout, x, y, result, reads, notCallers>>

\* let v: &str = o.as_str();
stmt_let_as_str ==
    /\ AtStmt("let_as_str")
    /\ decl' = [decl EXCEPT ![Stmt.v] = depth]
    /\ r1' = IF Stmt.v = "r1" THEN as_str(Stmt.a, heap[Stmt.a]) ELSE r1
    /\ r2' = IF Stmt.v = "r2" THEN as_str(Stmt.a, heap[Stmt.a]) ELSE r2
    /\ ip' = ip + 1
    /\ UNCHANGED <<prog, pc, stdout, longestVars, depth, r, reads, notCallers>>

\* r = longest(&s1, &s2);
stmt_longest_of_strings ==
    /\ AtStmt("longest_of_strings")
    /\ x' = as_str(Stmt.a, heap[Stmt.a])
    /\ y' = as_str(Stmt.b, heap[Stmt.b])
    /\ result' = [kind |-> "str", span |-> longest(x', y')]
    /\ r' = result'.span
    /\ ip' = ip + 1
    /\ UNCHANGED <<prog, pc, stdout, heap, alive, depth, decl, r1, r2, reads, notCallers>>

\* r = longest(r1, r2);
stmt_longest_of_refs ==
    /\ AtStmt("longest_of_refs")
    /\ x' = Ref(Stmt.a)
    /\ y' = Ref(Stmt.b)
    /\ result' = [kind |-> "str", span |-> longest(x', y')]
    /\ r' = result'.span
    /\ ip' = ip + 1
    /\ UNCHANGED <<prog, pc, stdout, heap, alive, depth, decl, r1, r2, reads, notCallers>>

\* what a read through a dangling reference may show
Garbage == {<<>>, <<0>>}

\* println!("{}", r);  -- a read of r
stmt_println ==
    /\ AtStmt("println")
    /\ reads' = Append(reads, [at |-> ip, permitted |-> ReadPermitted(r),
                               alive |-> alive])
    /\ IF r.owner \in alive
       THEN stdout' = Append(stdout, [fd |-> "stdout", val |-> Content(r)])
       ELSE \E g \in Garbage : stdout' = Append(stdout, [fd |-> "stdout", val |-> g])
    /\ ip' = ip + 1
    /\ UNCHANGED <<prog, pc, longestVars, depth, decl, r1, r2, r, notCallers>>

\* // println!("{}", r);  -- commented out: nothing is read
stmt_commented_println ==
    /\ AtStmt("commented_println")
    /\ ip' = ip + 1
    /\ UNCHANGED <<prog, pc, stdout, longestVars, depth, decl, r1, r2, r, reads,
                   notCallers>>

\* C9: the span longest returns is borrowed from both referents.  Every read
\* of r in right_nth1, right_nth2 and right_nth3 happens while s1 and s2 are
\* both alive; at the read that error_nth1 shows commented out, s2 has been
\* dropped, so the read is not permitted, and error_nth1 performs no read.
C9_ResultValidWhileBothAlive ==
    /\ (prog \in Callers /\ r.owner # "none") => r.lifetime = {"s1", "s2"}
    /\ \A i \in DOMAIN reads : reads[i].permitted /\ reads[i].alive = {"s1", "s2"}
    /\ AtStmt("println") => ReadPermitted(r) /\ alive = {"s1", "s2"}
    /\ AtStmt("commented_println") =>
            /\ prog = "error_nth1"
            /\ "s2" \notin alive
            /\ ~ReadPermitted(r)
    /\ prog = "error_nth1" => reads = <<>>
    /\ (prog \in {"right_nth1", "right_nth2", "right_nth3"} /\ pc = "returned")
            => Len(reads) = 1

\* error_nth1 stands at its commented-out read: r refers to s1, which is
\* alive, and is still unusable because s2 is gone
C9_Witness ==
    /\ AtStmt("commented_println")
    /\ r.owner = "s1" /\ "s1" \in alive /\ "s2" \notin alive

-----------------------------------------------------------------------------
(* hash_map: update_hash_map::entry_for_counting *)

CountFns == {"count_words", "count_chars"}

\* the chars with the Unicode White_Space property
WhiteSpace ==
    (9..13) \cup {32, 133, 160, 5760} \cup (8192..8202)
        \cup {8232, 8233, 8239, 8287, 12288}

\* only the space counted as white space
is_space(c) == c = 32

\* char::is_whitespace
is_whitespace(c) == c \in WhiteSpace

\* the text without its leading white space
RECURSIVE skip_whitespace(_)
skip_whitespace(t) ==
    IF t # <<>> /\ is_whitespace(Head(t)) THEN skip_whitespace(Tail(t)) ELSE t

\* the longest prefix of t without white space
RECURSIVE take_word(_)
take_word(t) ==
    IF t = <<>> \/ is_whitespace(Head(t)) THEN <<>>
    ELSE <<Head(t)>> \o take_word(Tail(t))

\* SplitWhitespace::next on the unread rest of the text: the next word, if any,
\* and the rest after it
split_whitespace_next(rest) ==
    LET t == skip_whitespace(rest)
        w == take_word(t)
    IN  [some |-> w # <<>>, word |-> w, rest |-> SubSeq(t, Len(w) + 1, Len(t))]

\* an iterator over the chars that passes over white space
chars_next_skipping_whitespace(rest) ==
    LET t == skip_whitespace(rest) IN
    [some |-> t # <<>>,
     ch   |-> IF t # <<>> THEN Head(t) ELSE 0,
     rest |-> IF t # <<>> THEN Tail(t) ELSE <<>>]

\* Chars::next on the unread rest of the text
chars_next(rest) ==
    [some |-> rest # <<>>,
     ch   |-> IF rest # <<>> THEN Head(rest) ELSE 0,
     rest |-> IF rest # <<>> THEN Tail(rest) ELSE <<>>]

\* a map still holding what an earlier call put into it
map_left_over == map

\* HashMap::new()
HashMapNew == [k \in {} |-> 0]

\* map.insert(k, v) in place of entry(k).or_insert(v): an old value is lost
insert_overwriting(m, k, v) == [j \in DOMAIN m \cup {k} |-> IF j = k THEN v ELSE m[j]]

\* an or_insert that empties the map before it inserts a new key
or_insert_clearing(m, k, v) ==
    IF k \in DOMAIN m THEN m ELSE [j \in {k} |-> v]

\* an or_insert that keeps nothing but the entry it was called for
or_insert_alone(m, k, v) ==
    IF k \in DOMAIN m THEN [j \in {k} |-> m[j]] ELSE [j \in {k} |-> v]

\* map.entry(k).or_insert(v): v is inserted only when k is vacant
or_insert(m, k, v) ==
    IF k \in DOMAIN m THEN m
    ELSE [j \in DOMAIN m \cup {k} |-> IF j = k THEN v ELSE m[j]]

(* A u32 is held as its 32-bit pattern, written as the signed integer with   *)
(* the same bits: 0 .. 2^31-1 are themselves, 2^31 .. 2^32-1 are -2^31 .. -1. *)

\* u32::MAX, 4294967295: all 32 bits set
U32Max == -1

\* the counter taken for an i32: it overflows at 2^31-1
i32_overflows(c) == c = 2147483647

\* `+= 1` on a u32 overflows exactly at u32::MAX
u32_overflows(c) == c = U32Max

\* the 32-bit sum c + 1: u32::MAX wraps to 0
u32_wrapping_add_one(c) == IF c = 2147483647 THEN -2147483647 - 1 ELSE c + 1

\* the count left as or_insert returned it
add_assign_none(m, k) == m

\* `*count += 1` through the &mut u32 that or_insert returned
add_assign_one(m, k) == [m EXCEPT ![k] = u32_wrapping_add_one(@)]

\* and_modify whose closure stores 1 in place of adding 1
and_modify_resetting(m, k) ==
    IF k \in DOMAIN m THEN [m EXCEPT ![k] = 1] ELSE m

\* and_modify whose closure is not run
and_modify_skipped(m, k) == m

\* entry(k).and_modify(|counter| *counter += 1): runs only when k is occupied
and_modify_add_one(m, k) ==
    IF k \in DOMAIN m THEN [m EXCEPT ![k] = u32_wrapping_add_one(@)] ELSE m

\* the texts of the source: "hello world about world" and "rust best"
HelloText ==
    << 104, 101, 108, 108, 111, 32, 119, 111, 114, 108, 100, 32,
       97, 98, 111, 117, 116, 32, 119, 111, 114, 108, 100 >>
RustBest == << 114, 117, 115, 116, 32, 98, 101, 115, 116 >>

\* chars the other texts are made of: 'a', 'b', space, line feed
TextChars == {97, 98, 32, 10}

Texts == SeqsUpTo(TextChars, MaxTextLen) \cup {HelloText, RustBest}

InitCount ==
    /\ prog \in CountFns
    /\ pc = "call"
    /\ stdout = <<>>
    /\ text \in Texts
    /\ words = <<>>
    /\ map = [k \in {} |-> 0]
    /\ runs = 0
    /\ earlier = [k \in {} |-> 0]
    /\ earlier_text = <<>>
    /\ IdleLargest /\ IdleLongest /\ IdleCallers
    /\ IdleMap /\ IdleSlice /\ IdleConc /\ IdleDrop /\ IdlePop

\* counts a key can have reached part-way through a long text: 1, 2^31-1,
\* u32::MAX - 1 and u32::MAX
MidwayCounts == {1, 2147483647, U32Max - 1, U32Max}

\* the keys met so far, by routine
MidwayKeys(f) == IF f = "count_words" THEN {<<97>>, <<98>>} ELSE {97, 32}

\* the maps the loop can hold part-way through a long text
MidwayMaps(f) ==
    UNION {[K -> MidwayCounts] : K \in SUBSET MidwayKeys(f) \ {{}}}

\* a loop under way on a long text: `words` is the unread rest, and what was
\* read before it is present only as the counts of the map. The word iterator
\* stops right behind a token, so its rest is empty or starts with white space.
InitCountMidway ==
    /\ prog \in CountFns
    /\ pc = "loop"
    /\ stdout = <<>>
    /\ words \in SeqsUpTo(TextChars, MaxRestLen)
    /\ IF prog = "count_words" /\ words # <<>>
       THEN is_whitespace(words[1]) ELSE TRUE
    /\ text = words
    /\ map \in MidwayMaps(prog)
    /\ runs = 0
    /\ earlier = [k \in {} |-> 0]
    /\ earlier_text = <<>>
    /\ IdleLargest /\ IdleLongest /\ IdleCallers
    /\ IdleMap /\ IdleSlice /\ IdleConc /\ IdleDrop /\ IdlePop

\* println!(text); let mut map = HashMap::new(); text.split_whitespace()
count_words_start ==
    /\ prog = "count_words"
    /\ pc = "call"
    /\ stdout' = Append(stdout, [fd |-> "stdout", val |-> text])
    /\ map' = HashMapNew
    /\ words' = text
    /\ pc' = "loop"
    /\ UNCHANGED <<prog, text, runs, earlier, earlier_text, notCount>>

\* one pass of the loop body: or_insert(0), += 1, println!
\* When the count is u32::MAX the addition overflows: a build with overflow
\* checks panics, a build without them wraps the count to 0.
count_words_iter ==
    /\ prog = "count_words"
    /\ pc = "loop"
    /\ LET nx == split_whitespace_next(words)
           entry == or_insert(map, nx.word, 0)
       IN
          /\ nx.some
          /\ words' = nx.rest
          /\ \/ /\ u32_overflows(entry[nx.word])
                /\ map' = entry
                /\ pc' = "panicked"
                /\ UNCHANGED stdout
             \/ /\ map' = add_assign_one(entry, nx.word)
                /\ stdout' = Append(stdout, [fd |-> "stdout",
                                             val |-> <<nx.word, map'[nx.word]>>])
                /\ UNCHANGED pc
    /\ UNCHANGED <<prog, text, runs, earlier, earlier_text, notCount>>

\* the iterator is exhausted: dbg!(map)
count_words_done ==
    /\ prog = "count_words"
    /\ pc = "loop"
    /\ ~split_whitespace_next(words).some
    /\ stdout' = Append(stdout, [fd |-> "stderr", val |-> map])
    /\ words' = <<>>
    /\ pc' = "done"
    /\ UNCHANGED <<prog, text, map, runs, earlier, earlier_text, notCount>>

\* let mut map = HashMap::new(); text.chars()
count_chars_start ==
    /\ prog = "count_chars"
    /\ pc = "call"
    /\ map' = HashMapNew
    /\ words' = text
    /\ pc' = "loop"
    /\ UNCHANGED <<prog, stdout, text, runs, earlier, earlier_text, notCount>>

\* one pass of the loop body: entry(ch).and_modify(+1).or_insert(1)
\* The closure's `+= 1` overflows like the one of the word loop.
count_chars_iter ==
    /\ prog = "count_chars"
    /\ pc = "loop"
    /\ LET nx == chars_next(words) IN
          /\ nx.some
          /\ words' = nx.rest
          /\ \/ /\ nx.ch \in DOMAIN map
                /\ u32_overflows(map[nx.ch])
                /\ pc' = "panicked"
                /\ UNCHANGED map
             \/ /\ map' = or_insert(and_modify_add_one(map, nx.ch), nx.ch, 1)
                /\ UNCHANGED pc
    /\ UNCHANGED <<prog, stdout, text, runs, earlier, earlier_text, notCount>>

\* the iterator is exhausted: dbg!(map)
count_chars_done ==
    /\ prog = "count_chars"
    /\ pc = "loop"
    /\ ~chars_next(words).some
    /\ stdout' = Append(stdout, [fd |-> "stderr", val |-> map])
    /\ pc' = "done"
    /\ UNCHANGED <<prog, text, words, map, runs, earlier, earlier_text, notCount>>

\* the caller calls the routine a second time on the same text
count_again ==
    /\ prog \in CountFns
    /\ pc = "done"
    /\ runs = 0
    /\ earlier' = map
    /\ runs' = 1
    /\ pc' = "call"
    /\ earlier_text' = text
    /\ UNCHANGED <<prog, stdout, text, words, map, notCount>>

\* the words of a text, in order
RECURSIVE WordsOf(_, _, _)
WordsOf(t, cur, acc) ==
    IF t = <<>> THEN (IF cur = <<>> THEN acc ELSE Append(acc, cur))
    ELSE IF Head(t) \in WhiteSpace
         THEN WordsOf(Tail(t), <<>>, IF cur = <<>> THEN acc ELSE Append(acc, cur))
         ELSE WordsOf(Tail(t), Append(cur, Head(t)), acc)

\* words joined by single spaces
RECURSIVE Join(_)
Join(ws) ==
    IF ws = <<>> THEN <<>>
    ELSE IF Len(ws) = 1 THEN ws[1]
    ELSE ws[1] \o <<32>> \o Join(Tail(ws))

\* the texts made of the words of t in another order
Reordered(t) ==
    LET ws == WordsOf(t, <<>>, <<>>) IN
    {Join([i \in 1..Len(ws) |-> ws[p[i]]]) : p \in Permutations(1..Len(ws))}

\* the caller calls the word loop again, on the same words in another order
count_reordered ==
    /\ prog = "count_words"
    /\ pc = "done"
    /\ runs = 0
    /\ text' \in Reordered(text)
    /\ earlier' = map
    /\ earlier_text' = text
    /\ runs' = 1
    /\ pc' = "call"
    /\ UNCHANGED <<prog, stdout, words, map, notCount>>

(* Reference definitions for the word counter *)

\* text[i..j] is a token: a maximal run of chars that are not white space
IsTokenAt(i, j) ==
    /\ i <= j
    /\ \A k \in i..j : text[k] \notin WhiteSpace
    /\ i = 1 \/ text[i - 1] \in WhiteSpace
    /\ j = Len(text) \/ text[j + 1] \in WhiteSpace

\* where the tokens of the text are
TokenPlaces == {q \in (1..Len(text)) \X (1..Len(text)) : IsTokenAt(q[1], q[2])}

\* the distinct tokens of the text
Tokens == {SubSeq(text, q[1], q[2]) : q \in TokenPlaces}

\* how often token w occurs in the text
Occurrences(w) == Cardinality({q \in TokenPlaces : SubSeq(text, q[1], q[2]) = w})

\* C10: when the word counting loop has finished, the keys of the map are
\* exactly the distinct whitespace-delimited tokens of the text and each
\* value is the number of occurrences of its token.
C10_WordCounts ==
    (prog = "count_words" /\ pc = "done")
        => /\ DOMAIN map = Tokens
           /\ \A w \in DOMAIN map : map[w] = Occurrences(w)

\* "hello world about world" gives hello: 1, world: 2, about: 1
C10_Witness ==
    /\ prog = "count_words" /\ pc = "done" /\ text = HelloText
    /\ DOMAIN map = {<<104, 101, 108, 108, 111>>, <<119, 111, 114, 108, 100>>,
                     <<97, 98, 111, 117, 116>>}
    /\ map[<<104, 101, 108, 108, 111>>] = 1
    /\ map[<<119, 111, 114, 108, 100>>] = 2
    /\ map[<<97, 98, 111, 117, 116>>] = 1

\* the sum of all counts of a map
RECURSIVE SumCounts(_)
SumCounts(m) ==
    IF DOMAIN m = {} THEN 0
    ELSE LET k == CHOOSE j \in DOMAIN m : TRUE
         IN m[k] + SumCounts([j \in DOMAIN m \ {k} |-> m[j]])

\* how many chars of the text the loop has consumed
Consumed == Len(text) - Len(words)

\* C11: in the loop and after it, the counts sum to the number of tokens
\* processed so far (words) or to the number of chars processed so far (chars)
C11_CountsSumToProcessed ==
    /\ (prog = "count_words" /\ pc \in {"loop", "done"})
          => SumCounts(map) = Cardinality({q \in TokenPlaces : q[2] <= Consumed})
    /\ (prog = "count_chars" /\ pc \in {"loop", "done"})
          => SumCounts(map) = Consumed

\* a proper prefix of a text with a repeated char has been counted
C11_Witness ==
    /\ prog = "count_chars" /\ pc = "loop"
    /\ words # <<>>
    /\ Consumed >= 2
    /\ \E ch \in DOMAIN map : map[ch] >= 2
    /\ SumCounts(map) = Consumed

\* C12: the empty text and a text of white space only give an empty map
C12_BlankTextGivesEmptyMap ==
    (/\ prog = "count_words"
     /\ pc = "done"
     /\ \A i \in 1..Len(text) : text[i] \in WhiteSpace)
        => DOMAIN map = {}

\* a text of a space and a line feed has been counted: the map is empty
C12_Witness ==
    /\ prog = "count_words" /\ pc = "done"
    /\ text = <<32, 10>>
    /\ DOMAIN map = {}

\* C13: a second call on the same text, starting from a fresh map, builds
\* the map the first call built
C13_SecondRunGivesEqualMap ==
    (prog \in CountFns /\ pc = "done" /\ runs = 1 /\ earlier_text = text)
        => map = earlier

\* "hello world about world" has been counted twice
C13_Witness ==
    /\ prog = "count_words" /\ pc = "done" /\ runs = 1
    /\ text = HelloText /\ earlier_text = text
    /\ map = earlier
    /\ map[<<119, 111, 114, 108, 100>>] = 2

(* Steps of the counting loops *)

\* the key the next pass of the loop counts
NextKey ==
    IF prog = "count_words" THEN split_whitespace_next(words).word
    ELSE chars_next(words).ch

\* the loop has a further item
HasNext ==
    IF prog = "count_words" THEN split_whitespace_next(words).some
    ELSE chars_next(words).some

\* one pass changes the entry of its key and no other: a new key gets the
\* count 1, a key already present one more than it had
OneEntryChanges ==
    (prog \in CountFns /\ pc = "loop" /\ HasNext)
        => /\ DOMAIN map' = DOMAIN map \cup {NextKey}
           /\ map'[NextKey] = (IF NextKey \in DOMAIN map THEN map[NextKey] + 1 ELSE 1)
           /\ \A j \in DOMAIN map \ {NextKey} : map'[j] = map[j]

\* while a loop runs no key leaves the map and no count goes down
NoCountDecreases ==
    (prog \in CountFns /\ pc = "loop")
        => \A j \in DOMAIN map : j \in DOMAIN map' /\ map'[j] >= map[j]

\* every key of the map has been counted at least once
CountsAtLeastOne ==
    (prog \in CountFns /\ pc \in {"loop", "done"})
        => \A j \in DOMAIN map : map[j] >= 1

\* C24: each pass of a counting loop changes exactly one entry: an absent
\* key is inserted with count 1, a present key's count rises by exactly 1,
\* every other count stays; so every count is at least 1 and none decreases
C24_StepChangesOneEntry ==
    []CountsAtLeastOne /\ [][OneEntryChanges /\ NoCountDecreases]_vars

\* the word loop has met a word twice and is about to meet it once more
C24_Witness ==
    /\ prog = "count_words" /\ pc = "loop"
    /\ HasNext
    /\ NextKey \in DOMAIN map
    /\ map[NextKey] = 2

\* the places of char c in the text
CharPlaces(c) == {i \in 1..Len(text) : text[i] = c}

\* C25: the char loop counts every char of the text, white space included:
\* the keys are the distinct chars of the text, each count is the number of
\* occurrences of its char, and the counts sum to the length of the text
C25_CharCounts ==
    (prog = "count_chars" /\ pc = "done")
        => /\ DOMAIN map = {text[i] : i \in 1..Len(text)}
           /\ \A c \in DOMAIN map : map[c] = Cardinality(CharPlaces(c))
           /\ SumCounts(map) = Len(text)

\* "rust best" gives s: 2, t: 2, ' ': 1, and 1 for each of r, u, b, e
C25_Witness ==
    /\ prog = "count_chars" /\ pc = "done" /\ text = RustBest
    /\ DOMAIN map = {114, 117, 115, 116, 32, 98, 101}
    /\ map[115] = 2 /\ map[116] = 2 /\ map[32] = 1
    /\ map[114] = 1 /\ map[117] = 1 /\ map[98] = 1 /\ map[101] = 1

\* the tokens of `rest` up to the place the word loop has reached, counted
\* into m with entry(k).and_modify(+1).or_insert(1)
RECURSIVE WordsByAndModify(_, _)
WordsByAndModify(rest, m) ==
    LET nx == split_whitespace_next(rest) IN
    IF rest = words \/ ~nx.some THEN m
    ELSE WordsByAndModify(nx.rest,
                          or_insert(and_modify_add_one(m, nx.word), nx.word, 1))

\* the chars of `rest` up to the place the char loop has reached, counted
\* into m with entry(k).or_insert(0) and += 1
RECURSIVE CharsByOrInsert(_, _)
CharsByOrInsert(rest, m) ==
    IF rest = words \/ rest = <<>> THEN m
    ELSE CharsByOrInsert(Tail(rest),
                         add_assign_one(or_insert(m, Head(rest), 0), Head(rest)))

\* C27: the two counting idioms give the same map for every key sequence,
\* after every step, starting from the empty map: what the word loop built
\* with or_insert(0) and += 1 is what and_modify(+1).or_insert(1) builds
\* from the same tokens, and the other way round for the char loop; the next
\* pass gives the same map with either idiom
C27_IdiomsAgree ==
    /\ (prog = "count_words" /\ pc = "loop")
          => map = WordsByAndModify(text, [k \in {} |-> 0])
    /\ (prog = "count_chars" /\ pc = "loop")
          => map = CharsByOrInsert(text, [k \in {} |-> 0])
    /\ (prog \in CountFns /\ pc = "loop" /\ HasNext)
          => add_assign_one(or_insert(map, NextKey, 0), NextKey)
                = or_insert(and_modify_add_one(map, NextKey), NextKey, 1)

\* the char loop has counted a char twice and another once
C27_Witness ==
    /\ prog = "count_chars" /\ pc = "loop"
    /\ words = <<>> /\ Len(text) = 3
    /\ \E c \in DOMAIN map : map[c] = 2
    /\ \E c \in DOMAIN map : map[c] = 1
    /\ map = CharsByOrInsert(text, [k \in {} |-> 0])

\* b holds the elements of a in some order
IsPermutation(a, b) ==
    /\ Len(a) = Len(b)
    /\ \E p \in Permutations(1..Len(a)) : \A i \in 1..Len(a) : b[i] = a[p[i]]

\* C28: the map does not depend on the order of the tokens: the word loop
\* run on a text and on a text with the same tokens in another order gives
\* equal maps
C28_OrderIrrelevant ==
    (/\ prog = "count_words" /\ pc = "done" /\ runs = 1
     /\ IsPermutation(WordsOf(earlier_text, <<>>, <<>>), WordsOf(text, <<>>, <<>>)))
        => map = earlier

\* "a b a" and then "a a b": both give a: 2, b: 1
C28_Witness ==
    /\ prog = "count_words" /\ pc = "done" /\ runs = 1
    /\ earlier_text = <<97, 32, 98, 32, 97>>
    /\ text = <<97, 32, 97, 32, 98>>
    /\ map = earlier
    /\ map[<<97>>] = 2 /\ map[<<98>>] = 1

(* The HashMap methods of update_hash_map: insert, entry().or_insert, remove *)

\* most method calls made on one map
MaxOps == 3

\* the routines; each fixes the key and value types of its map
MapFns == {"insert", "entry_to_insert", "remove"}

\* HashMap<&str, i8>, HashMap<&str, u8>, HashMap<i32, &str>
MapKeys(f) == IF f = "remove" THEN {1, 2} ELSE {"rust", "c++"}

MapVals(f) == IF f = "remove" THEN {"a", "b"} ELSE {1, 2}

\* Option<V>
None == [some |-> FALSE]

Some(v) == [some |-> TRUE, val |-> v]

\* map.get(k).copied()
hash_map_get(m, k) == IF k \in DOMAIN m THEN Some(m[k]) ELSE None

\* an insert that hands back the value it has just stored
hash_map_insert_returning_new(m, k, v) ==
    [map |-> [j \in DOMAIN m \cup {k} |-> IF j = k THEN v ELSE m[j]],
     ret |-> IF k \in DOMAIN m THEN Some(v) ELSE None]

\* map.insert(k, v): the value is stored, the old value, if any, is returned
hash_map_insert(m, k, v) ==
    [map |-> [j \in DOMAIN m \cup {k} |-> IF j = k THEN v ELSE m[j]],
     ret |-> hash_map_get(m, k)]

\* map.remove(&k): the entry is taken out, its value, if any, is returned
hash_map_remove(m, k) ==
    [map |-> [j \in DOMAIN m \ {k} |-> m[j]], ret |-> hash_map_get(m, k)]

\* map.entry(k).or_insert(v): the map afterwards, and the value the returned
\* &mut V refers to
hash_map_entry_or_insert(m, k, v) ==
    [map |-> or_insert(m, k, v), ret |-> or_insert(m, k, v)[k]]

\* let mut map = HashMap::new()
InitMap ==
    /\ prog \in MapFns
    /\ pc = "call"
    /\ stdout = <<>>
    /\ hm = [k \in {} |-> 0]
    /\ prev = [k \in {} |-> 0]
    /\ log = <<>>
    /\ IdleLargest /\ IdleLongest /\ IdleCallers /\ IdleCount
    /\ IdleSlice /\ IdleConc /\ IdleDrop /\ IdlePop

\* map.insert(k, v)
map_insert ==
    /\ prog \in MapFns
    /\ pc = "call"
    /\ Len(log) < MaxOps
    /\ \E k \in MapKeys(prog), v \in MapVals(prog) :
          LET done == hash_map_insert(hm, k, v) IN
             /\ hm' = done.map
             /\ log' = Append(log, [op |-> "insert", k |-> k, v |-> v,
                                    ret |-> done.ret])
    /\ prev' = hm
    /\ UNCHANGED <<prog, pc, stdout, notMap>>

\* map.entry(k).or_insert(v)
map_entry_or_insert ==
    /\ prog \in MapFns
    /\ pc = "call"
    /\ Len(log) < MaxOps
    /\ \E k \in MapKeys(prog), v \in MapVals(prog) :
          LET done == hash_map_entry_or_insert(hm, k, v) IN
             /\ hm' = done.map
             /\ log' = Append(log, [op |-> "or_insert", k |-> k, v |-> v,
                                    ret |-> Some(done.ret)])
    /\ prev' = hm
    /\ UNCHANGED <<prog, pc, stdout, notMap>>

\* map.remove(&k)
map_remove ==
    /\ prog \in MapFns
    /\ pc = "call"
    /\ Len(log) < MaxOps
    /\ \E k \in MapKeys(prog) :
          LET done == hash_map_remove(hm, k) IN
             /\ hm' = done.map
             /\ log' = Append(log, [op |-> "remove", k |-> k, ret |-> done.ret])
    /\ prev' = hm
    /\ UNCHANGED <<prog, pc, stdout, notMap>>

\* the end of the function: the map is dropped
map_return ==
    /\ prog \in MapFns
    /\ pc = "call"
    /\ pc' = "returned"
    /\ UNCHANGED <<prog, stdout, mapVars, notMap>>

\* the latest method call
Last == log[Len(log)]

\* every entry but the one of key k is as it was before the latest call
OthersKept(k) ==
    /\ DOMAIN hm \ {k} = DOMAIN prev \ {k}
    /\ \A j \in DOMAIN prev \ {k} : hm[j] = prev[j]

\* C17: entry(k).or_insert(v) stores v under k when k was absent, keeps the
\* existing value (v is discarded) when k was present, and leaves every
\* other key as it was
C17_OrInsertKeepsExisting ==
    (prog \in MapFns /\ log # <<>> /\ Last.op = "or_insert")
        => /\ Last.k \in DOMAIN hm
           /\ hm[Last.k] = (IF Last.k \in DOMAIN prev THEN prev[Last.k] ELSE Last.v)
           /\ Last.ret = Some(hm[Last.k])
           /\ OthersKept(Last.k)

\* entry("rust").or_insert(1), then entry("rust").or_insert(2): "rust" is 1
C17_Witness ==
    /\ prog = "entry_to_insert"
    /\ Len(log) = 2
    /\ log[1].op = "or_insert" /\ log[1].k = "rust" /\ log[1].v = 1
    /\ log[2].op = "or_insert" /\ log[2].k = "rust" /\ log[2].v = 2
    /\ log[2].ret = Some(1)
    /\ hm["rust"] = 1

\* C18: insert(k, v) returns None when k was absent and the old value when
\* it was present, and the map then holds v under k; remove(k) returns the
\* value when k was present and takes the entry out, so that a second
\* remove(k) returns None
C18_InsertAndRemoveReturnOld ==
    (prog \in MapFns /\ log # <<>>)
        => /\ Last.op = "insert"
                => /\ Last.ret = hash_map_get(prev, Last.k)
                   /\ Last.k \in DOMAIN hm /\ hm[Last.k] = Last.v
                   /\ OthersKept(Last.k)
           /\ Last.op = "remove"
                => /\ Last.ret = hash_map_get(prev, Last.k)
                   /\ Last.k \notin DOMAIN hm
                   /\ OthersKept(Last.k)
           /\ (/\ Len(log) >= 2
               /\ Last.op = "remove"
               /\ log[Len(log) - 1].op = "remove"
               /\ log[Len(log) - 1].k = Last.k)
                => Last.ret = None

\* insert(1, "a"), remove(&1) gives Some("a"), remove(&1) gives None
C18_Witness ==
    /\ prog = "remove"
    /\ Len(log) = 3
    /\ log[1].op = "insert" /\ log[1].k = 1 /\ log[1].v = "a"
    /\ ~log[1].ret.some
    /\ log[2].op = "remove" /\ log[2].k = 1
    /\ log[2].ret.some /\ log[2].ret.val = "a"
    /\ log[3].op = "remove" /\ log[3].k = 1
    /\ ~log[3].ret.some
    /\ hm = [k \in {} |-> 0]

(* first_word_index and first_word_slice of the slice crate *)

\* longest String, in chars, handed to the first-word functions
MaxWordChars == 3

FirstWordFns == {"first_word_index", "first_word_slice"}

\* b' '
Space == 32

\* the number of chars, in place of the number of bytes
chars_count(bytes) == Cardinality({j \in 1..Len(bytes) : bytes[j] \notin 128..191})

\* s.len(): the length of the String in bytes
string_len(bytes) == Len(bytes)

\* for (i, &item) in bytes.iter().enumerate() { if item == b' ' { return .. } }
\* from index i on: the index the loop returns at, if it returns
RECURSIVE enumerate_until_space(_, _)
enumerate_until_space(bytes, i) ==
    IF i >= Len(bytes) THEN None
    ELSE IF bytes[i + 1] = Space THEN Some(i)
    ELSE enumerate_until_space(bytes, i + 1)

\* fn first_word_index(s: &String) -> usize
first_word_index(bytes) ==
    LET found == enumerate_until_space(bytes, 0)
    IN IF found.some THEN found.val ELSE string_len(bytes)

\* &s[..=i] in place of &s[..i]
index_range_to_inclusive(bytes, i) ==
    IF i + 1 <= Len(bytes) /\ is_char_boundary(bytes, i + 1)
    THEN [ok |-> TRUE, off |-> 0, len |-> i + 1]
    ELSE [ok |-> FALSE]

\* &s[..i]: panics unless i is within the String and on a char boundary
index_range_to(bytes, i) ==
    IF i <= Len(bytes) /\ is_char_boundary(bytes, i)
    THEN [ok |-> TRUE, off |-> 0, len |-> i]
    ELSE [ok |-> FALSE]

\* &s[..]
index_range_full(bytes) == [ok |-> TRUE, off |-> 0, len |-> Len(bytes)]

\* fn first_word_slice(s: &String) -> &str
first_word_slice(bytes) ==
    LET found == enumerate_until_space(bytes, 0)
    IN IF found.some THEN index_range_to(bytes, found.val)
       ELSE index_range_full(bytes)

\* chars the Strings are made of: 'r', ' ' and U+4E2D (3 bytes)
WordChars == {114, 32, 20013}

\* the Strings of the tests: "rust", "ru t", "中国 美国"
RuT == <<114, 117, 32, 116>>
ZhongguoMeiguo == <<20013, 22269, 32, 32654, 22269>>

\* the Strings the functions are called on
WordInputs ==
    {string_from(chars) :
        chars \in SeqsUpTo(WordChars, MaxWordChars) \cup {Rust, RuT, ZhongguoMeiguo}}

InitSlice ==
    /\ prog \in FirstWordFns
    /\ pc = "call"
    /\ stdout = <<>>
    /\ string \in WordInputs
    /\ word = [kind |-> "none"]
    /\ IdleLargest /\ IdleLongest /\ IdleCallers /\ IdleCount
    /\ IdleMap /\ IdleConc /\ IdleDrop /\ IdlePop

first_word_index_call ==
    /\ prog = "first_word_index"
    /\ pc = "call"
    /\ word' = [kind |-> "usize", n |-> first_word_index(string)]
    /\ pc' = "returned"
    /\ UNCHANGED <<prog, stdout, string, notSlice>>

\* a range that is not on a char boundary makes the call panic
first_word_slice_call ==
    /\ prog = "first_word_slice"
    /\ pc = "call"
    /\ LET got == first_word_slice(string) IN
          IF got.ok
          THEN /\ word' = [kind |-> "str", off |-> got.off, len |-> got.len]
               /\ pc' = "returned"
          ELSE /\ pc' = "panicked"
               /\ UNCHANGED word
    /\ UNCHANGED <<prog, stdout, string, notSlice>>

\* the byte positions (1-based) of the spaces of the String
SpacePlaces == {j \in 1..Len(string) : string[j] = 32}

\* the byte index of the first space, the byte length if there is none
FirstSpace ==
    IF SpacePlaces = {} THEN Len(string)
    ELSE (CHOOSE j \in SpacePlaces : \A q \in SpacePlaces : j <= q) - 1

\* C19: first_word_index returns the byte index of the first space byte, or
\* the byte length when there is none: a value in 0 ..= len with no space
\* before it
C19_IndexOfFirstSpace ==
    (prog = "first_word_index" /\ pc = "returned")
        => /\ word.kind = "usize"
           /\ word.n = FirstSpace
           /\ word.n \in 0..Len(string)
           /\ \A j \in 1..word.n : string[j] # 32
           /\ word.n < Len(string) => string[word.n + 1] = 32

\* "ru t" gives 2
C19_Witness ==
    /\ prog = "first_word_index" /\ pc = "returned"
    /\ string = RuT
    /\ word.n = 2

\* C20: first_word_slice returns the prefix that ends just before the first
\* space, the whole String when there is none: it is s[..first_word_index(s)],
\* also for multi-byte text, and the cut is never inside a char
C20_SliceIsPrefixBeforeSpace ==
    prog = "first_word_slice"
        => /\ pc # "panicked"
           /\ pc = "returned"
                => /\ word.kind = "str"
                   /\ word.off = 0
                   /\ word.len = first_word_index(string)
                   /\ word.len = FirstSpace
                   /\ is_char_boundary(string, word.len)
                   /\ \A j \in 1..word.len : string[j] # 32

\* "中国 美国" gives "中国", the first six bytes
C20_Witness ==
    /\ prog = "first_word_slice" /\ pc = "returned"
    /\ string = string_from(ZhongguoMeiguo)
    /\ word.len = 6
    /\ SubSeq(string, word.off + 1, word.off + word.len) = string_from(<<20013, 22269>>)

(* Independent callers running largest, longest and the word counting loop *)
(* at the same time.  The locals of a call live in its own stack frame; the *)
(* console is the one thing the calls have in common.                       *)

Threads == {"t1", "t2"}

\* every call working in the frame of the first caller
frame_shared(t) == "t1"

\* the stack frame of caller t's call: `let mut largest`, `let mut map` and
\* the parameters are locals of the call
frame(t) == t

\* a call as its caller sees it: the function, the arguments, the result
Call(f, l, a, b, txt) ==
    [fn |-> f, list |-> l, x |-> a, y |-> b, text |-> txt,
     state |-> "ready", ret |-> [kind |-> "none"]]

\* the calls the callers make: the vectors, Strings and texts of the source
\* and of its tests, with an empty and a tied vector and a short text
ConcCalls ==
    {Call("largest", l, NoSpan, NoSpan, <<>>) : l \in {TestListI32, <<1, 1>>, <<>>}}
    \cup {Call("longest", <<>>, as_str("s1", q[1]), as_str("s2", q[2]), <<>>) :
             q \in {<<Rust, Cpp>>, <<Cpp, Rust>>, <<Ab, Cd>>}}
    \cup {Call("count_words", <<>>, NoSpan, NoSpan, txt) :
             txt \in {HelloText, <<97, 32, 97>>}}

\* a frame no call has entered
EmptyFrame ==
    [fn |-> "none", list |-> <<>>, x |-> NoSpan, y |-> NoSpan, text |-> <<>>,
     largest |-> 0, iter |-> 0, words |-> <<>>, map |-> [k \in {} |-> 0],
     pc |-> "none", ret |-> [kind |-> "none"]]

\* entering the function: the arguments are passed
frame_enter(c) ==
    [EmptyFrame EXCEPT !.fn = c.fn, !.list = c.list, !.x = c.x, !.y = c.y,
                       !.text = c.text, !.pc = "entry"]

\* one step of largest in frame f
largest_step(f) ==
    IF f.pc = "entry"
    THEN IF in_bounds(f.list, first_index(f.list))
         THEN [f EXCEPT !.largest = first_index(f.list), !.iter = 1, !.pc = "loop"]
         ELSE [f EXCEPT !.pc = "panicked", !.ret = [kind |-> "panic"]]
    ELSE IF f.iter <= Len(f.list)
         THEN [f EXCEPT !.largest = IF partial_lt("i32", f.list[f.largest],
                                                   f.list[f.iter])
                                     THEN f.iter ELSE f.largest,
                        !.iter = f.iter + 1]
         ELSE [f EXCEPT !.pc = "returned",
                        !.ret = [kind |-> "ref", pos |-> f.largest]]

\* the one step of longest in frame f
longest_step(f) ==
    [f EXCEPT !.pc = "returned",
              !.ret = [kind |-> "str", span |-> longest(f.x, f.y)]]

\* one step of the word counting loop in frame f (the texts of these calls
\* are short: no count comes near u32::MAX)
count_words_step(f) ==
    IF f.pc = "entry"
    THEN [f EXCEPT !.map = HashMapNew, !.words = f.text, !.pc = "loop"]
    ELSE LET nx == split_whitespace_next(f.words) IN
         IF nx.some
         THEN [f EXCEPT !.map = add_assign_one(or_insert(f.map, nx.word, 0), nx.word),
                        !.words = nx.rest]
         ELSE [f EXCEPT !.pc = "returned", !.words = <<>>,
                        !.ret = [kind |-> "map", map |-> f.map]]

\* what that step writes to the console
count_words_output(f) ==
    IF f.pc = "entry" THEN <<[fd |-> "stdout", val |-> f.text]>>
    ELSE LET nx == split_whitespace_next(f.words) IN
         IF nx.some
         THEN <<[fd |-> "stdout",
                 val |-> <<nx.word, count_words_step(f).map[nx.word]>>]>>
         ELSE <<[fd |-> "stderr", val |-> f.map]>>

frame_step(f) ==
    CASE f.fn = "largest" -> largest_step(f)
      [] f.fn = "longest" -> longest_step(f)
      [] OTHER            -> count_words_step(f)

frame_output(f) == IF f.fn = "count_words" THEN count_words_output(f) ELSE <<>>

Finished(f) == f.pc \in {"returned", "panicked"}

InitConc ==
    /\ prog = "concurrent_callers"
    /\ pc = "call"
    /\ stdout = <<>>
    /\ calls \in [Threads -> ConcCalls]
    /\ frames = [t \in Threads |-> EmptyFrame]
    /\ IdleLargest /\ IdleLongest /\ IdleCallers /\ IdleCount
    /\ IdleMap /\ IdleSlice /\ IdleDrop /\ IdlePop

\* a caller makes its call
conc_call ==
    /\ prog = "concurrent_callers"
    /\ \E t \in Threads :
          /\ calls[t].state = "ready"
          /\ frames' = [frames EXCEPT ![frame(t)] = frame_enter(calls[t])]
          /\ calls' = [calls EXCEPT ![t].state = "running"]
    /\ UNCHANGED <<prog, pc, stdout, notConc>>

\* the call of one caller takes its next step
conc_step ==
    /\ prog = "concurrent_callers"
    /\ \E t \in Threads :
          /\ calls[t].state = "running"
          /\ ~Finished(frames[frame(t)])
          /\ frames' = [frames EXCEPT ![frame(t)] = frame_step(@)]
          /\ stdout' = stdout \o frame_output(frames[frame(t)])
    /\ UNCHANGED <<prog, pc, calls, notConc>>

\* the call of one caller returns (or has panicked): the caller has its result
conc_return ==
    /\ prog = "concurrent_callers"
    /\ \E t \in Threads :
          /\ calls[t].state = "running"
          /\ Finished(frames[frame(t)])
          /\ calls' = [calls EXCEPT ![t].state = frames[frame(t)].pc,
                                    ![t].ret = frames[frame(t)].ret]
    /\ UNCHANGED <<prog, pc, stdout, frames, notConc>>

\* the frame of a call run from its entry to its end with no other call
RECURSIVE RunAlone(_)
RunAlone(f) == IF Finished(f) THEN f ELSE RunAlone(frame_step(f))

\* the arguments a frame holds are those the caller passed
HoldsArguments(f, c) ==
    /\ f.fn = c.fn /\ f.list = c.list /\ f.text = c.text
    /\ f.x = c.x /\ f.y = c.y

\* C15: with two callers running at once, in every interleaving of their
\* steps each caller gets the result its call gives when run alone, and
\* the arguments of a running call are those its caller passed
C15_InterleavingKeepsResults ==
    prog = "concurrent_callers"
        => \A t \in Threads :
              /\ calls[t].state = "running"
                    => HoldsArguments(frames[frame(t)], calls[t])
              /\ calls[t].state \in {"returned", "panicked"}
                    => LET alone == RunAlone(frame_enter(calls[t])) IN
                          /\ calls[t].state = alone.pc
                          /\ calls[t].ret.kind = alone.ret.kind
                          /\ calls[t].ret = alone.ret

\* two word counts ran interleaved (the second wrote its text before the
\* first wrote its first token) and both maps are right
C15_Witness ==
    /\ prog = "concurrent_callers"
    /\ calls["t1"].fn = "count_words" /\ calls["t1"].text = HelloText
    /\ calls["t2"].fn = "count_words" /\ calls["t2"].text = <<97, 32, 97>>
    /\ calls["t1"].state = "returned" /\ calls["t2"].state = "returned"
    /\ calls["t1"].ret.map[<<119, 111, 114, 108, 100>>] = 2
    /\ calls["t2"].ret.map[<<97>>] = 2
    /\ stdout[1].val = HelloText /\ stdout[2].val = <<97, 32, 97>>
    /\ stdout[Len(stdout)].val = calls["t1"].ret.map

(* drop_trait::trivial_implementation: values dropped at the end of scopes *)

\* the Droppable values, by name
Droppables == {"a", "b", "c", "d"}

\* the statements of trivial_implementation; the last `close` is the end of
\* the function body
DropCode ==
    << [op |-> "let", name |-> "a"],
       [op |-> "open"],
       [op |-> "let", name |-> "b"],
       [op |-> "open"],
       [op |-> "let", name |-> "c"],
       [op |-> "let", name |-> "d"],
       [op |-> "println", line |-> "Exiting block B"],
       [op |-> "close"],
       [op |-> "println", line |-> "Just exited block B"],
       [op |-> "println", line |-> "Exiting block A"],
       [op |-> "close"],
       [op |-> "println", line |-> "Just exited block A"],
       [op |-> "drop", name |-> "a"],
       [op |-> "println", line |-> "end of the main function"],
       [op |-> "close"] >>

\* impl Drop for Droppable: println!("> Dropping {}", self.name)
drop_line(name) == [fd |-> "stdout", val |-> <<"> Dropping", name>>]

\* the values of a scope dropped in the order they were declared
declaration_order(sc) == sc

\* the order in which the values of a scope are dropped at its end: the
\* reverse of their declaration
RECURSIVE scope_exit_order(_)
scope_exit_order(sc) ==
    IF sc = <<>> THEN <<>> ELSE scope_exit_order(Tail(sc)) \o <<Head(sc)>>

\* a scope without the value that was moved out of it
RECURSIVE moved_out(_, _)
moved_out(sc, name) ==
    IF sc = <<>> THEN <<>>
    ELSE IF Head(sc) = name THEN Tail(sc)
    ELSE <<Head(sc)>> \o moved_out(Tail(sc), name)

InitDrop ==
    /\ prog = "trivial_implementation"
    /\ pc = "call"
    /\ stdout = <<>>
    /\ scopes = << <<>> >>
    /\ dropped = [n \in Droppables |-> 0]
    /\ todo = DropCode
    /\ IdleLargest /\ IdleLongest /\ IdleCallers /\ IdleCount
    /\ IdleMap /\ IdleSlice /\ IdleConc /\ IdlePop

\* the statement to run has operation o
DropAt(o) == prog = "trivial_implementation" /\ todo # <<>> /\ Head(todo).op = o

\* let _x = Droppable { name }: the value belongs to the innermost scope
drop_let ==
    /\ DropAt("let")
    /\ scopes' = [scopes EXCEPT ![Len(scopes)] = Append(@, Head(todo).name)]
    /\ todo' = Tail(todo)
    /\ UNCHANGED <<prog, pc, stdout, dropped, notDrop>>

\* {
drop_open ==
    /\ DropAt("open")
    /\ scopes' = Append(scopes, <<>>)
    /\ todo' = Tail(todo)
    /\ UNCHANGED <<prog, pc, stdout, dropped, notDrop>>

\* println!(line)
drop_println ==
    /\ DropAt("println")
    /\ stdout' = Append(stdout, [fd |-> "stdout", val |-> Head(todo).line])
    /\ todo' = Tail(todo)
    /\ UNCHANGED <<prog, pc, scopes, dropped, notDrop>>

\* drop(_x): the value is moved into drop() and dropped at its end; the
\* variable it was moved out of is not dropped at the end of its scope
drop_call ==
    /\ DropAt("drop")
    /\ LET name == Head(todo).name IN
          /\ scopes' = [d \in DOMAIN scopes |-> moved_out(scopes[d], name)]
          /\ stdout' = Append(stdout, drop_line(name))
          /\ dropped' = [dropped EXCEPT ![name] = @ + 1]
    /\ todo' = Tail(todo)
    /\ UNCHANGED <<prog, pc, notDrop>>

\* }: the values of the innermost scope are dropped; the last `}` ends the
\* function
drop_close ==
    /\ DropAt("close")
    /\ LET order == scope_exit_order(scopes[Len(scopes)]) IN
          /\ stdout' = stdout \o [i \in 1..Len(order) |-> drop_line(order[i])]
          /\ dropped' = [n \in Droppables |->
                dropped[n] + Cardinality({i \in 1..Len(order) : order[i] = n})]
    /\ scopes' = SubSeq(scopes, 1, Len(scopes) - 1)
    /\ todo' = Tail(todo)
    /\ pc' = IF Tail(todo) = <<>> THEN "done" ELSE pc
    /\ UNCHANGED <<prog, notDrop>>

\* the output the test records
DropOutput ==
    << "Exiting block B", <<"> Dropping", "d">>, <<"> Dropping", "c">>,
       "Just exited block B", "Exiting block A", <<"> Dropping", "b">>,
       "Just exited block A", <<"> Dropping", "a">>,
       "end of the main function" >>

\* C21: in trivial_implementation every Droppable is dropped exactly once
\* and the events come in the order: 'Exiting block B', drop d, drop c,
\* 'Just exited block B', 'Exiting block A', drop b, 'Just exited block A',
\* drop a, 'end of the main function'
C21_DropOrder ==
    prog = "trivial_implementation"
        => /\ Len(stdout) <= Len(DropOutput)
           /\ \A i \in 1..Len(stdout) :
                 stdout[i].fd = "stdout" /\ stdout[i].val = DropOutput[i]
           /\ \A n \in Droppables : dropped[n] <= 1
           /\ pc = "done"
                 => /\ Len(stdout) = Len(DropOutput)
                    /\ \A n \in Droppables : dropped[n] = 1
                    /\ scopes = <<>>

\* the function has ended: nine lines, the last one after the drop of a
C21_Witness ==
    /\ prog = "trivial_implementation" /\ pc = "done"
    /\ Len(stdout) = 9
    /\ stdout[8].val = <<"> Dropping", "a">>
    /\ dropped["a"] = 1

(* update_vector::pop: the loop `while let Some(x) = v.pop()` *)

\* longest vector handed to the loop
MaxVecLen == 3

\* i8 sample values: both ends of the range and 1
I8Vals == {-128, 1, 127}

\* vec![1, 3, 5, 7, 9]
TestVec == <<1, 3, 5, 7, 9>>

\* a pop that hands out the last element and leaves it in the vector
vec_pop_peeking(vv) ==
    IF vv = <<>> THEN [vec |-> vv, ret |-> None]
    ELSE [vec |-> vv, ret |-> Some(vv[Len(vv)])]

\* Vec::pop: removes the last element and returns it, or None if it is empty
vec_pop(vv) ==
    IF vv = <<>> THEN [vec |-> vv, ret |-> None]
    ELSE [vec |-> SubSeq(vv, 1, Len(vv) - 1), ret |-> Some(vv[Len(vv)])]

InitPop ==
    /\ prog = "pop"
    /\ pc = "loop"
    /\ stdout = <<>>
    /\ vinit \in SeqsUpTo(I8Vals, MaxVecLen) \cup {TestVec}
    /\ vector = vinit
    /\ popped = <<>>
    /\ opt = None
    /\ IdleLargest /\ IdleLongest /\ IdleCallers /\ IdleCount
    /\ IdleMap /\ IdleSlice /\ IdleConc /\ IdleDrop

\* while let Some(x) = v.pop() { println!("{} pop out.", x); }: one test of
\* the loop condition and, on Some(x), one run of the body
pop_while_let ==
    /\ prog = "pop"
    /\ pc = "loop"
    /\ LET got == vec_pop(vector) IN
          /\ vector' = got.vec
          /\ opt' = got.ret
          /\ IF got.ret.some
             THEN /\ popped' = Append(popped, got.ret.val)
                  /\ stdout' = Append(stdout, [fd |-> "stdout",
                                               val |-> <<got.ret.val, "pop out.">>])
                  /\ UNCHANGED pc
             ELSE /\ pc' = "after"
                  /\ UNCHANGED <<popped, stdout>>
    /\ UNCHANGED <<prog, vinit, notPop>>

\* if let None = v.pop() { println!("vector is empty."); }
pop_if_let_none ==
    /\ prog = "pop"
    /\ pc = "after"
    /\ LET got == vec_pop(vector) IN
          /\ vector' = got.vec
          /\ opt' = got.ret
          /\ stdout' = IF got.ret.some THEN stdout
                       ELSE Append(stdout, [fd |-> "stdout",
                                            val |-> "vector is empty."])
    /\ pc' = "done"
    /\ UNCHANGED <<prog, vinit, popped, notPop>>

\* what the loop has done so far: the vector is what is left of the front of
\* the one it started with, and the body received the rest, last element
\* first; once the loop is over the vector is empty, the body has run once
\* for every element and the latest pop returned None
PopSoFar ==
    prog = "pop"
        => /\ Len(vector) + Len(popped) = Len(vinit)
           /\ vector = SubSeq(vinit, 1, Len(vector))
           /\ \A i \in 1..Len(popped) : popped[i] = vinit[Len(vinit) + 1 - i]
           /\ pc \in {"after", "done"}
                 => /\ vector = <<>>
                    /\ Len(popped) = Len(vinit)
                    /\ ~opt.some

\* C30: the loop `while let Some(x) = v.pop()` ends for every vector, after
\* exactly len(v) runs of its body, which receive the elements last first;
\* the vector is then empty and a further pop returns None
C30_PopLoopTerminates ==
    []PopSoFar /\ ((prog = "pop" /\ pc = "loop") ~> (pc = "done"))

\* vec![1, 3, 5, 7, 9] has been emptied: 9, 7, 5, 3, 1, then None twice
C30_Witness ==
    /\ prog = "pop" /\ pc = "done"
    /\ vinit = TestVec
    /\ popped = <<9, 7, 5, 3, 1>>
    /\ vector = <<>>
    /\ ~opt.some
    /\ stdout[Len(stdout)].val = "vector is empty."

(* Effects of a call *)

\* the routines that only compute a value
SilentFns == LargestFns \cup {"no_need_lifetime_annotation",
                              "do_need_lifetime_annotation", "longest"}

\* the arguments of a call are left as they were passed
InputsKept ==
    (prog \in LargestFns \cup LongestFns \cup CountFns /\ pc # "done")
        => /\ list' = list /\ T' = T
           /\ heap' = heap /\ alive' = alive /\ x' = x /\ y' = y
           /\ text' = text

\* what a call has written so far
Written ==
    /\ prog \in SilentFns => stdout = <<>>
    /\ prog = "longest_with_an_announcement"
          => \E ann \in Announcements :
                stdout = (IF pc = "returned"
                          THEN <<[fd |-> "stdout", val |-> ann]>> ELSE <<>>)
    /\ prog = "count_chars"
          => /\ \A i \in DOMAIN stdout : stdout[i].fd = "stderr"
             /\ pc = "done" => Len(stdout) = runs + 1
    /\ (prog = "count_words" /\ pc = "done")
          => /\ Len(stdout) = (runs + 1) * (Cardinality(TokenPlaces) + 2)
             /\ stdout[Len(stdout)] = [fd |-> "stderr", val |-> map]

\* a step of an extremum finder or of a selector leaves the slice, both
\* Strings and both spans as they are, and the Strings with their owner
OnlyReads ==
    /\ prog \in LargestFns => list' = list /\ Len(list') = Len(list)
    /\ prog \in LongestFns
          => /\ heap' = heap /\ x' = x /\ y' = y
             /\ alive = Owners /\ alive' = Owners

\* C23: the extremum finder and the selector only read their inputs: after
\* a call the slice (length, order, every element) and both spans are as
\* before, and the caller still owns them
C23_InputsOnlyRead == [][OnlyReads]_vars

\* largest has scanned a slice whose maximum is not in front and returned
\* its second position: the slice is still in its order
C23_Witness ==
    /\ prog = "largest" /\ T = "i32" /\ pc = "returned"
    /\ Len(list) = 2 /\ list[1] < list[2] /\ ret = 2

\* C14, read literally: no call of the three operations writes anything
C14_NoOutputAtAll ==
    (prog \in LargestFns \cup LongestFns \cup CountFns) => stdout = <<>>

\* C14: the extremum finders and the plain selectors write nothing;
\* longest_with_an_announcement writes its announcement, once, to the standard
\* output; the word loop writes the text, a line per token and the map, the
\* char loop the map; no call changes its arguments
C14_OnlyAnnouncedOutput == []Written /\ [][InputsKept]_vars

\* longest_with_an_announcement has returned and its announcement is written
C14_Witness ==
    /\ prog = "longest_with_an_announcement" /\ pc = "returned"
    /\ result.kind = "str"
    /\ stdout = <<[fd |-> "stdout", val |-> "Today is someone's birthday!"]>>

(* Failure of a call *)

\* one pass of a counting loop: it fails or wraps exactly when the count of
\* its key is u32::MAX
CountingPass ==
    (prog \in CountFns /\ pc = "loop" /\ HasNext)
        => IF NextKey \in DOMAIN map /\ map[NextKey] = U32Max
           THEN \/ pc' = "panicked" /\ map' = map
                \/ pc' = "loop" /\ map' = [map EXCEPT ![NextKey] = 0]
           ELSE /\ pc' = "loop"
                /\ NextKey \in DOMAIN map'
                /\ map'[NextKey] # 0

\* a selector has a result once it has returned, and never fails
SelectorsReturn ==
    prog \in LongestFns
        => /\ pc \in {"call", "returned"}
           /\ pc = "returned" => result.kind \in {"str", "usize"}

-----------------------------------------------------------------------------

Init == InitLargest \/ InitLongest \/ InitCallers \/ InitCount \/ InitMap
           \/ InitSlice \/ InitConc \/ InitDrop
           \/ InitPop

Next ==
    \/ largest_enter
    \/ largest_iter
    \/ largest_return
    \/ no_need_lifetime_annotation_call
    \/ do_need_lifetime_annotation_call
    \/ longest_call
    \/ longest_with_an_announcement_call
    \/ stmt_let
    \/ stmt_let_string
    \/ stmt_assign_string
    \/ stmt_open
    \/ stmt_close
    \/ stmt_let_as_str
    \/ stmt_longest_of_strings
    \/ stmt_longest_of_refs
    \/ stmt_println
    \/ stmt_commented_println
    \/ count_words_start
    \/ count_words_iter
    \/ count_words_done
    \/ count_chars_start
    \/ count_chars_iter
    \/ count_chars_done
    \/ count_again
    \/ count_reordered
    \/ map_insert
    \/ map_entry_or_insert
    \/ map_remove
    \/ map_return
    \/ first_word_index_call
    \/ first_word_slice_call
    \/ conc_call
    \/ conc_step
    \/ conc_return
    \/ drop_let
    \/ drop_open
    \/ drop_println
    \/ drop_call
    \/ drop_close
    \/ pop_while_let
    \/ pop_if_let_none

Spec == Init /\ [][Next]_vars

\* the pop loop alone, each of its steps taken when it can be: a sequential
\* program goes on until it has ended
NextPop == pop_while_let \/ pop_if_let_none

SpecPop ==
    InitPop /\ [][NextPop]_vars /\ WF_vars(pop_while_let) /\ WF_vars(pop_if_let_none)

\* the same program, started also with a counting loop under way
SpecLongText == (Init \/ InitCountMidway) /\ [][Next]_vars

====
